---- MODULE Spec2Model ----
(***************************************************************************)
(* Duplicate-checking proof of concept (exercises/88-pocs/88.01): the POST *)
(* handler of api/chat.ts evaluated against the mock record store of       *)
(* api/mock-db.ts.  One evaluation is one run of the handler's stream      *)
(* `execute` callback; every await of the callback is a step boundary.     *)
(*                                                                         *)
(* Texts are TLA+ strings (TLC evaluates Len, SubSeq and \o on them).      *)
(* Similarity scores are exact fractions [num, den] in lowest terms, so    *)
(* that 0.7, 0.5 and matches / keywords.length compare as in the code.     *)
(***************************************************************************)
EXTENDS Integers, Sequences, FiniteSets, TLC

\* Longest proposal (awardData.lineItems) the model enumerates.
MaxItems == 2

None == [none |-> TRUE]

----------------------------------------------------------------------------
(* Fractions *)

RECURSIVE Gcd(_, _)
Gcd(a, b) == IF b = 0 THEN a ELSE Gcd(b, a % b)

\* n / d for n >= 0, d > 0, in lowest terms.
Frac(n, d) == LET g == Gcd(n, d) IN [num |-> n \div g, den |-> d \div g]

\* a > b on fractions.
GT(a, b) == a.num * b.den > b.num * a.den

LE(a, b) == ~GT(a, b)

Zero == Frac(0, 1)

One == Frac(1, 1)

----------------------------------------------------------------------------
(* String operations of the fallback: toLowerCase, split(/\s+/), includes *)

CharAt(s, i) == SubSeq(s, i, i)

\* The lower-case letter of each upper-case letter.
LowerTable ==
  [A |-> "a", B |-> "b", C |-> "c", D |-> "d", E |-> "e", F |-> "f", G |-> "g",
   H |-> "h", I |-> "i", J |-> "j", K |-> "k", L |-> "l", M |-> "m", N |-> "n",
   O |-> "o", P |-> "p", Q |-> "q", R |-> "r", S |-> "s", T |-> "t", U |-> "u",
   V |-> "v", W |-> "w", X |-> "x", Y |-> "y", Z |-> "z"]

LowerChar(c) == IF c \in DOMAIN LowerTable THEN LowerTable[c] ELSE c

RECURSIVE toLowerCase(_)
toLowerCase(s) ==
  IF Len(s) = 0 THEN "" ELSE LowerChar(CharAt(s, 1)) \o toLowerCase(Tail(s))

\* The characters /\s/ matches, among those the texts use.
IsSpace(c) == c \in {" ", "\t", "\n"}

\* s.split(/\s+/): the pieces between maximal runs of whitespace; a leading or
\* trailing run leaves an empty piece, and "" splits to [""].
RECURSIVE SplitFrom(_, _, _, _)
SplitFrom(s, i, start, acc) ==
  IF i > Len(s) THEN Append(acc, SubSeq(s, start, Len(s)))
  ELSE IF IsSpace(CharAt(s, i))
       THEN IF i > 1 /\ IsSpace(CharAt(s, i - 1))
            THEN SplitFrom(s, i + 1, i + 1, acc)
            ELSE SplitFrom(s, i + 1, i + 1, Append(acc, SubSeq(s, start, i - 1)))
       ELSE SplitFrom(s, i + 1, start, acc)

split(s) == SplitFrom(s, 1, 1, <<>>)

\* text.includes(kw)
includes(text, kw) ==
  \E i \in 1..(Len(text) - Len(kw) + 1) : SubSeq(text, i, i + Len(kw) - 1) = kw

Range(seq) == {seq[i] : i \in DOMAIN seq}

----------------------------------------------------------------------------
(* The mock record store (api/mock-db.ts) *)

MOCK_LINE_ITEMS ==
  << [id |-> "line-001", name |-> "Fiber Optic Cable Installation", type |-> "variable-cost"],
     [id |-> "line-002", name |-> "Network Switch", type |-> "fixed-cost"],
     [id |-> "line-003", name |-> "Tower Foundation", type |-> "fixed-cost"],
     [id |-> "line-004", name |-> "Site Preparation", type |-> "variable-cost"],
     [id |-> "line-005", name |-> "Equipment Rack", type |-> "fixed-cost"] >>

MOCK_CONTRACTS ==
  << [id |-> "contract-001", contractNumber |-> "PO-2025-001",
      siteId |-> "site-001", porId |-> "por-001", status |-> "awarded",
      lineItems |->
        << [lineItemId |-> "line-001",
            details |-> "Install fiber optic cable from main hub to building basement"],
           [lineItemId |-> "line-002", quantity |-> 2] >>,
      awardedDate |-> "2025-01-15"],
     [id |-> "contract-002", contractNumber |-> "PO-2025-002",
      siteId |-> "site-001", porId |-> "por-001", status |-> "awarded",
      lineItems |->
        << [lineItemId |-> "line-004",
            details |-> "Prepare site for fiber installation - trenching and conduit"] >>,
      awardedDate |-> "2025-01-20"],
     [id |-> "contract-003", contractNumber |-> "PO-2025-003",
      siteId |-> "site-002", porId |-> "por-002", status |-> "awarded",
      lineItems |->
        << [lineItemId |-> "line-002", quantity |-> 5],
           [lineItemId |-> "line-005", quantity |-> 3] >>,
      awardedDate |-> "2025-02-01"],
     [id |-> "contract-004", contractNumber |-> "PO-2025-004",
      siteId |-> "site-001", porId |-> "por-001", status |-> "cancelled",
      lineItems |->
        << [lineItemId |-> "line-001", details |-> "Cancelled contract"] >>,
      awardedDate |-> "2025-01-10"] >>

\* A second store of the same Contract type: the seed between further contracts.
\* contract-000 precedes the seed and holds the fixed-cost line-002 twice and the
\* variable-cost line-001 three times: without details, with details unlike the
\* seed's, and with the details of contract-001; contract-005 repeats line-001 with
\* other details and holds line-999, which has no definition; contract-006 is
\* pending; contract-007 holds line-001 without details at site-002/por-002.
MORE_CONTRACTS ==
  << [id |-> "contract-000", contractNumber |-> "PO-2024-000",
      siteId |-> "site-001", porId |-> "por-001", status |-> "awarded",
      lineItems |->
        << [lineItemId |-> "line-001"],
           [lineItemId |-> "line-002", quantity |-> 1],
           [lineItemId |-> "line-002", quantity |-> 4],
           [lineItemId |-> "line-001", details |-> "Paint the lobby walls"],
           [lineItemId |-> "line-001",
            details |-> "Install fiber optic cable from main hub to building basement"] >>,
      awardedDate |-> "2024-12-01"] >>
  \o MOCK_CONTRACTS \o
  << [id |-> "contract-005", contractNumber |-> "PO-2025-005",
      siteId |-> "site-001", porId |-> "por-001", status |-> "awarded",
      lineItems |->
        << [lineItemId |-> "line-001", details |-> "Paint the lobby walls"],
           [lineItemId |-> "line-999", details |-> "Legacy cabling work"] >>,
      awardedDate |-> "2025-02-10"],
     [id |-> "contract-006", contractNumber |-> "PO-2025-006",
      siteId |-> "site-001", porId |-> "por-001", status |-> "pending",
      lineItems |->
        << [lineItemId |-> "line-002", quantity |-> 7],
           [lineItemId |-> "line-001",
            details |-> "Install fiber optic cable from main hub to building basement"] >>,
      awardedDate |-> "2025-02-11"],
     [id |-> "contract-007", contractNumber |-> "PO-2025-007",
      siteId |-> "site-002", porId |-> "por-002", status |-> "awarded",
      lineItems |-> << [lineItemId |-> "line-001"] >>,
      awardedDate |-> "2025-02-12"] >>

Stores == {MOCK_CONTRACTS, MORE_CONTRACTS}

\* x.details || dflt: an absent and an empty details are both falsy.
DetailsOr(x, dflt) ==
  IF "details" \in DOMAIN x /\ x.details # "" THEN x.details ELSE dflt

\* contract.lineItems.some((li) => li.lineItemId === id)
HasLineItem(contract, id) ==
  \E k \in DOMAIN contract.lineItems : contract.lineItems[k].lineItemId = id

\* As searchExistingContracts, without the test of the status.
searchAnyStatus(db, params) ==
  SelectSeq(db, LAMBDA contract :
    /\ contract.siteId = params.siteId
    /\ contract.porId = params.porId
    /\ \E k \in DOMAIN contract.lineItems :
         \E j \in DOMAIN params.lineItemIds :
           params.lineItemIds[j] = contract.lineItems[k].lineItemId)

\* As searchExistingContracts, without the test of the POR.
searchAnyPor(db, params) ==
  SelectSeq(db, LAMBDA contract :
    /\ contract.status = "awarded"
    /\ contract.siteId = params.siteId
    /\ \E k \in DOMAIN contract.lineItems :
         \E j \in DOMAIN params.lineItemIds :
           params.lineItemIds[j] = contract.lineItems[k].lineItemId)

\* As searchExistingContracts, without the tests of the site and of the POR.
searchAnySite(db, params) ==
  SelectSeq(db, LAMBDA contract :
    /\ contract.status = "awarded"
    /\ \E k \in DOMAIN contract.lineItems :
         \E j \in DOMAIN params.lineItemIds :
           params.lineItemIds[j] = contract.lineItems[k].lineItemId)

searchExistingContracts(db, params) ==
  SelectSeq(db, LAMBDA contract :
    /\ contract.status = "awarded"
    /\ contract.siteId = params.siteId
    /\ contract.porId = params.porId
    /\ \E k \in DOMAIN contract.lineItems :
         \E j \in DOMAIN params.lineItemIds :
           params.lineItemIds[j] = contract.lineItems[k].lineItemId)

\* MOCK_LINE_ITEMS.find((li) => li.id === lineItemId): the first one, or undefined.
getLineItemDetails(lineItemId) ==
  LET found == SelectSeq(MOCK_LINE_ITEMS, LAMBDA li : li.id = lineItemId)
  IN  IF found = <<>> THEN None ELSE Head(found)

----------------------------------------------------------------------------
(* detectVariableCostDuplicates (api/chat.ts) *)

\* contract.lineItems.filter(id matches).map(to {contractId, contractNumber, details})
EntryMatches(contract, lineItemId) ==
  LET same == SelectSeq(contract.lineItems, LAMBDA li : li.lineItemId = lineItemId)
  IN  [k \in DOMAIN same |->
         [contractId |-> contract.id,
          contractNumber |-> contract.contractNumber,
          details |-> DetailsOr(same[k], "")]]

RECURSIVE FlatEntryMatches(_, _)
FlatEntryMatches(cs, lineItemId) ==
  IF cs = <<>> THEN <<>>
  ELSE EntryMatches(Head(cs), lineItemId) \o FlatEntryMatches(Tail(cs), lineItemId)

\* As variableCostMatches, keeping the candidates without details.
variableCostMatchesUnfiltered(newLineItem, cs) ==
  FlatEntryMatches(cs, newLineItem.lineItemId)

\* The candidates the comparison may use: only those with details.
variableCostMatches(newLineItem, cs) ==
  SelectSeq(FlatEntryMatches(cs, newLineItem.lineItemId), LAMBDA m : m.details # "")

\* What generateObject may answer: objects inside and outside the schema.
OracleScores ==
  {Frac(0, 1), Frac(7, 10), Frac(71, 100), Frac(85, 100), Frac(1, 1), Frac(12, 10)}

OracleObjects ==
  [similarity_score : OracleScores, is_duplicate : BOOLEAN, reasoning : {"Same work activity"}]

\* z.number().min(0).max(1): an object outside the schema makes generateObject throw.
duplicateAnalysisSchema(obj) ==
  LE(Zero, obj.similarity_score) /\ LE(obj.similarity_score, One)

\* As OraclePrompt, without the placeholder for absent details.
OraclePromptNoPlaceholder(newLineItem, firstMatch) ==
  [newDetails |-> DetailsOr(newLineItem, ""),
   existingDetails |-> firstMatch.details]

\* The two texts of the prompt.
OraclePrompt(newLineItem, firstMatch) ==
  [newDetails |-> DetailsOr(newLineItem, "No details provided"),
   existingDetails |-> firstMatch.details]

\* As IsDuplicateVerdict, requiring both signals.
IsDuplicateVerdictBoth(object) ==
  object.is_duplicate /\ GT(object.similarity_score, Frac(7, 10))

\* The verdict on the Oracle's answer.
IsDuplicateVerdict(object) ==
  object.is_duplicate \/ GT(object.similarity_score, Frac(7, 10))

\* Lines 128-135: nothing to compare.
NoCompareResult ==
  [isDuplicate |-> FALSE, similarityScore |-> Zero,
   reasoning |-> "No variable-cost items with details found to compare"]

\* As OracleResult, reporting a full score whenever the verdict is a duplicate.
OracleResultFullScore(object, firstMatch) ==
  [isDuplicate |-> IsDuplicateVerdict(object),
   similarityScore |-> IF IsDuplicateVerdict(object) THEN One ELSE object.similarity_score,
   reasoning |-> object.reasoning,
   matchingContractId |-> firstMatch.contractId]

\* Lines 189-195: the answer of a successful call.
OracleResult(object, firstMatch) ==
  [isDuplicate |-> IsDuplicateVerdict(object),
   similarityScore |-> object.similarity_score,
   reasoning |-> object.reasoning,
   matchingContractId |-> firstMatch.contractId]

\* As keywords, keeping the tokens of 3 characters too.
keywordsAtLeast3(newLineItem) ==
  SelectSeq(split(toLowerCase(DetailsOr(newLineItem, ""))), LAMBDA w : Len(w) >= 3)

\* Tokens of the new text longer than 3 characters.
keywords(newLineItem) ==
  SelectSeq(split(toLowerCase(DetailsOr(newLineItem, ""))), LAMBDA w : Len(w) > 3)

keywordMatches(newLineItem, firstMatch) ==
  Len(SelectSeq(keywords(newLineItem),
                LAMBDA kw : includes(toLowerCase(firstMatch.details), kw)))

FallbackScore(matches, total) == IF total > 0 THEN Frac(matches, total) ELSE Zero

\* As FallbackVerdict, with >= for >.
FallbackVerdictAtLeast(similarityScore) == ~GT(Frac(1, 2), similarityScore)

FallbackVerdict(similarityScore) == GT(similarityScore, Frac(1, 2))

\* Lines 196-215: the catch block.
FallbackResult(newLineItem, firstMatch) ==
  LET total == Len(keywords(newLineItem))
      matches == keywordMatches(newLineItem, firstMatch)
      similarityScore == FallbackScore(matches, total)
  IN  [isDuplicate |-> FallbackVerdict(similarityScore),
       similarityScore |-> similarityScore,
       reasoning |-> "Keyword-based similarity: " \o ToString(matches) \o "/"
                     \o ToString(total) \o " keywords match (AI analysis unavailable)",
       matchingContractId |-> firstMatch.contractId]

----------------------------------------------------------------------------
(* The requests: extractedAwardData after lines 218-262 *)

\* (siteId, porId) of a proposal: pairs with contracts, a pair with none, a
\* site with another POR, and an empty site or POR identifier.
IdPairs ==
  { <<"site-001", "por-001">>, <<"site-002", "por-002">>, <<"site-003", "por-003">>,
    <<"site-001", "por-002">>, <<"", "por-001">>, <<"site-001", "">> }

\* Proposed entries: fixed-cost items, a variable-cost item with and without
\* details, and an item without a definition.
ProposedEntries ==
  { [lineItemId |-> "line-002", quantity |-> 1],
    [lineItemId |-> "line-005", quantity |-> 2],
    [lineItemId |-> "line-001",
     details |-> "Install fiber optic cable infrastructure to connect building to main network"],
    [lineItemId |-> "line-001", details |-> "Fiber cable splice testing"],
    [lineItemId |-> "line-001"],
    [lineItemId |-> "line-999", quantity |-> 1] }

Proposals == UNION {[1..n -> ProposedEntries] : n \in 0..MaxItems}

AwardDatas ==
  {[siteId |-> p[1], porId |-> p[2], lineItems |-> items] : p \in IdPairs, items \in Proposals}

----------------------------------------------------------------------------
(* The state of one evaluation *)

VARIABLES
  contracts,           \* the record store's contract array
  extractedAwardData,  \* the proposal, or None (conversational mode)
  pc,                  \* where the execute callback is
  stream,              \* the chunks written to the UI message stream
  uuids,               \* crypto.randomUUID() calls so far
  existingContracts,   \* the result of the search (empty before it)
  idx,                 \* index of the proposed entry the loop is at
  duplicates,          \* the findings accumulated
  result,              \* outcome of the Oracle call of the current entry, or None
  aiResult,            \* what detectVariableCostDuplicates returned, or None
  oracleCalls,         \* history: the Oracle calls made
  findingEntry,        \* history: for each finding, the index of its entry
  disconnected,        \* the caller has gone (the response stream was cancelled)
  answers,             \* history: how each Oracle call has settled, and the verdict
  other                \* a second request, suspended at an await, or None

vars ==
  <<contracts, extractedAwardData, pc, stream, uuids, existingContracts, idx,
    duplicates, result, aiResult, oracleCalls, findingEntry, disconnected, answers,
    other>>

lineItems == extractedAwardData.lineItems

newLineItem == lineItems[idx]

\* As contractsWithLineItem, without the filter.
contractsUnfiltered(existing, lineItemId) == existing

\* Lines 357-362.
contractsWithLineItem(existing, lineItemId) ==
  SelectSeq(existing, LAMBDA contract : HasLineItem(contract, lineItemId))

\* The three chunks of one text part.
TextChunks(id, delta) ==
  << [type |-> "text-start", id |-> id],
     [type |-> "text-delta", id |-> id, delta |-> delta],
     [type |-> "text-end", id |-> id] >>

\* Lines 287-292.
statusText(award) ==
  "Checking for duplicates in award:\n- Site: " \o award.siteId
  \o "\n- POR: " \o award.porId
  \o "\n- Line Items: " \o ToString(Len(award.lineItems))
  \o "\n\nAnalyzing existing contracts..."

\* Line 450 (without its emoji).
warningText(n) ==
  "\n\n**Duplicate Check Complete**\n\nFound " \o ToString(n)
  \o " duplicate line item(s) that match existing contracts. Please review the details below."

\* Line 466 (without its emoji).
successText(n) ==
  "\n\n**Duplicate Check Complete**\n\nNo duplicates found! All " \o ToString(n)
  \o " line item(s) are unique for this Site and POR. You can proceed with the award."

\* As warningLevel, with < 3 for <= 3.
warningLevelBelow3(n) == IF n = 1 THEN "low" ELSE IF n < 3 THEN "medium" ELSE "high"

\* Lines 422-427.
warningLevel(n) == IF n = 1 THEN "low" ELSE IF n <= 3 THEN "medium" ELSE "high"

\* As ExactFindings, reporting the first contract only.
ExactFindingsFirstOnly(item, lineItem, cs) ==
  << [lineItemId |-> item.lineItemId,
      lineItemName |-> lineItem.name,
      existingContractId |-> cs[1].id,
      existingContractNumber |-> cs[1].contractNumber,
      matchType |-> "exact"] >>

\* Lines 368-375: one finding per contract, in the order of the contracts.
ExactFindings(item, lineItem, cs) ==
  [k \in DOMAIN cs |->
     [lineItemId |-> item.lineItemId,
      lineItemName |-> lineItem.name,
      existingContractId |-> cs[k].id,
      existingContractNumber |-> cs[k].contractNumber,
      matchType |-> "exact"]]

\* contractsWithLineItem.find((c) => c.id === id)?.contractNumber || ''
ContractNumberOf(cs, id) ==
  LET found == SelectSeq(cs, LAMBDA c : c.id = id)
  IN  IF found = <<>> THEN "" ELSE Head(found).contractNumber

\* As SemanticFindings, with the finding labelled 'exact'.
SemanticFindingsAsExact(item, lineItem, cs, ai) ==
  IF ai.isDuplicate /\ "matchingContractId" \in DOMAIN ai /\ ai.matchingContractId # ""
  THEN << [lineItemId |-> item.lineItemId,
           lineItemName |-> lineItem.name,
           existingContractId |-> ai.matchingContractId,
           existingContractNumber |-> ContractNumberOf(cs, ai.matchingContractId),
           matchType |-> "exact",
           similarityScore |-> ai.similarityScore,
           aiReasoning |-> ai.reasoning] >>
  ELSE <<>>

\* As SemanticFindings, with one finding per contract holding the line item.
SemanticFindingsPerContract(item, lineItem, cs, ai) ==
  IF ai.isDuplicate /\ "matchingContractId" \in DOMAIN ai /\ ai.matchingContractId # ""
  THEN [k \in DOMAIN cs |->
          [lineItemId |-> item.lineItemId,
           lineItemName |-> lineItem.name,
           existingContractId |-> cs[k].id,
           existingContractNumber |-> cs[k].contractNumber,
           matchType |-> "semantic",
           similarityScore |-> ai.similarityScore,
           aiReasoning |-> ai.reasoning]]
  ELSE <<>>

\* Lines 385-403.
SemanticFindings(item, lineItem, cs, ai) ==
  IF ai.isDuplicate /\ "matchingContractId" \in DOMAIN ai /\ ai.matchingContractId # ""
  THEN << [lineItemId |-> item.lineItemId,
           lineItemName |-> lineItem.name,
           existingContractId |-> ai.matchingContractId,
           existingContractNumber |-> ContractNumberOf(cs, ai.matchingContractId),
           matchType |-> "semantic",
           similarityScore |-> ai.similarityScore,
           aiReasoning |-> ai.reasoning] >>
  ELSE <<>>

\* As Push, at the front (unshift).
PushFront(seq, fs) == fs \o seq

\* duplicates.push(...fs)
Push(seq, fs) == seq \o fs

----------------------------------------------------------------------------
(* POST: the execute callback of the stream, one action per run between awaits *)

Init ==
  /\ contracts \in Stores
  /\ extractedAwardData \in AwardDatas \cup {None}
  /\ pc = "start"
  /\ stream = <<>>
  /\ uuids = 0
  /\ existingContracts = <<>>
  /\ idx = 0
  /\ duplicates = <<>>
  /\ result = None
  /\ aiResult = None
  /\ oracleCalls = <<>>
  /\ findingEntry = <<>>
  /\ disconnected = FALSE
  /\ answers = <<>>
  /\ other = None

\* The contracts of the search that hold the current entry's line item.
Candidates == contractsWithLineItem(existingContracts, newLineItem.lineItemId)

\* Lines 285-308: with award data, the status text is written at once.
WriteStatus ==
  /\ pc = "start"
  /\ extractedAwardData # None
  /\ stream' = stream \o TextChunks(uuids + 1, statusText(extractedAwardData))
  /\ uuids' = uuids + 1
  /\ pc' = "search"
  /\ UNCHANGED <<disconnected, answers, other>>
  /\ UNCHANGED <<contracts, extractedAwardData, existingContracts, idx, duplicates,
                 result, aiResult, oracleCalls, findingEntry>>

\* Lines 309-322 and 325: without award data the model's own stream is merged
\* and nothing else is done.
Converse ==
  /\ pc = "start"
  /\ extractedAwardData = None
  /\ \E text \in {"", "How can I help?"} :
       stream' = stream \o TextChunks(0, text)
  /\ pc' = "done"
  /\ UNCHANGED <<disconnected, answers, other>>
  /\ UNCHANGED <<contracts, extractedAwardData, uuids, existingContracts, idx,
                 duplicates, result, aiResult, oracleCalls, findingEntry>>

\* Lines 330-347: the search, and the empty finding list.
Search ==
  /\ pc = "search"
  /\ existingContracts' =
       searchExistingContracts(contracts,
         [siteId |-> extractedAwardData.siteId,
          porId |-> extractedAwardData.porId,
          lineItemIds |-> [k \in DOMAIN lineItems |-> lineItems[k].lineItemId]])
  /\ idx' = 1
  /\ duplicates' = <<>>
  /\ pc' = "loop"
  /\ UNCHANGED <<disconnected, answers, other>>
  /\ UNCHANGED <<contracts, extractedAwardData, stream, uuids, result, aiResult,
                 oracleCalls, findingEntry>>

\* As SkipItem, leaving the loop (break) instead of going to the next entry.
SkipItemBreaks ==
  /\ pc = "loop"
  /\ idx <= Len(lineItems)
  /\ \/ getLineItemDetails(newLineItem.lineItemId) = None
     \/ Len(Candidates) = 0
  /\ idx' = Len(lineItems) + 1
  /\ UNCHANGED <<disconnected, answers, other>>
  /\ UNCHANGED <<contracts, extractedAwardData, pc, stream, uuids, existingContracts,
                 duplicates, result, aiResult, oracleCalls, findingEntry>>

\* Lines 351-364: no definition (continue), or no contract holds the item.
SkipItem ==
  /\ pc = "loop"
  /\ idx <= Len(lineItems)
  /\ \/ getLineItemDetails(newLineItem.lineItemId) = None
     \/ Len(Candidates) = 0
  /\ idx' = idx + 1
  /\ UNCHANGED <<disconnected, answers, other>>
  /\ UNCHANGED <<contracts, extractedAwardData, pc, stream, uuids, existingContracts,
                 duplicates, result, aiResult, oracleCalls, findingEntry>>

\* As AssessFixed, writing the findings of the entry to the stream at once.
AssessFixedEmits ==
  /\ pc = "loop"
  /\ idx <= Len(lineItems)
  /\ LET lineItem == getLineItemDetails(newLineItem.lineItemId)
         found == ExactFindings(newLineItem, lineItem, Candidates)
     IN  /\ lineItem # None
         /\ Len(Candidates) > 0
         /\ lineItem.type = "fixed-cost"
         /\ duplicates' = Push(duplicates, found)
         /\ findingEntry' = findingEntry \o [k \in DOMAIN found |-> idx]
         /\ stream' = Append(stream,
              [type |-> "data-duplicate-warning", id |-> uuids + 1,
               data |-> [duplicates |-> found, requiresAcknowledgment |-> TRUE]])
  /\ uuids' = uuids + 1
  /\ idx' = idx + 1
  /\ UNCHANGED <<disconnected, answers, other>>
  /\ UNCHANGED <<contracts, extractedAwardData, pc, existingContracts,
                 result, aiResult, oracleCalls>>

\* Lines 366-376: a fixed-cost item.
AssessFixed ==
  /\ pc = "loop"
  /\ idx <= Len(lineItems)
  /\ LET lineItem == getLineItemDetails(newLineItem.lineItemId)
         found == ExactFindings(newLineItem, lineItem, Candidates)
     IN  /\ lineItem # None
         /\ Len(Candidates) > 0
         /\ lineItem.type = "fixed-cost"
         /\ duplicates' = Push(duplicates, found)
         /\ findingEntry' = findingEntry \o [k \in DOMAIN found |-> idx]
  /\ idx' = idx + 1
  /\ UNCHANGED <<disconnected, answers, other>>
  /\ UNCHANGED <<contracts, extractedAwardData, pc, stream, uuids, existingContracts,
                 result, aiResult, oracleCalls>>

\* As firstMatch, taking the last candidate with details.
lastMatch ==
  LET matches == variableCostMatches(newLineItem, Candidates)
  IN  matches[Len(matches)]

\* Line 137: the first candidate with details of the current entry.
firstMatch == variableCostMatches(newLineItem, Candidates)[1]

\* One generateObject call (lines 162-187): the proposed entry it is made for,
\* the contract of the text compared, and the two texts of its prompt.
OracleCall(entry, item, match) ==
  [entry |-> entry, contractId |-> match.contractId, prompt |-> OraclePrompt(item, match)]

\* As AssessVariable, going on to the next entry without awaiting the call.
AssessVariableNoAwait ==
  /\ pc = "loop"
  /\ idx <= Len(lineItems)
  /\ LET lineItem == getLineItemDetails(newLineItem.lineItemId)
         matches == variableCostMatches(newLineItem, Candidates)
     IN  /\ lineItem # None
         /\ Len(Candidates) > 0
         /\ lineItem.type # "fixed-cost"
         /\ IF Len(matches) = 0
            THEN UNCHANGED oracleCalls
            ELSE oracleCalls' = Append(oracleCalls, OracleCall(idx, newLineItem, firstMatch))
  /\ idx' = idx + 1
  /\ UNCHANGED <<disconnected, answers, other>>
  /\ UNCHANGED <<contracts, extractedAwardData, pc, stream, uuids, existingContracts,
                 duplicates, result, aiResult, findingEntry>>

\* Lines 377-383 and 116-187: a variable-cost item enters
\* detectVariableCostDuplicates, which returns at once without candidates with
\* details and otherwise calls the Oracle.
AssessVariable ==
  /\ pc = "loop"
  /\ idx <= Len(lineItems)
  /\ LET lineItem == getLineItemDetails(newLineItem.lineItemId)
         matches == variableCostMatches(newLineItem, Candidates)
     IN  /\ lineItem # None
         /\ Len(Candidates) > 0
         /\ lineItem.type # "fixed-cost"
         /\ IF Len(matches) = 0
            THEN /\ aiResult' = NoCompareResult
                 /\ pc' = "assessed"
                 /\ UNCHANGED oracleCalls
            ELSE /\ oracleCalls' = Append(oracleCalls, OracleCall(idx, newLineItem, firstMatch))
                 /\ pc' = "oracle"
                 /\ UNCHANGED aiResult
  /\ UNCHANGED <<disconnected, answers, other>>
  /\ UNCHANGED <<contracts, extractedAwardData, stream, uuids, existingContracts, idx,
                 duplicates, result, findingEntry>>

\* Lines 162-195: generateObject answers; an answer outside the schema throws
\* into the catch block.
OracleAnswers ==
  /\ pc = "oracle"
  /\ \E object \in OracleObjects :
       IF duplicateAnalysisSchema(object)
       THEN /\ result' = [ok |-> TRUE, object |-> object]
            /\ aiResult' = OracleResult(object, firstMatch)
       ELSE /\ result' = [ok |-> FALSE, error |-> "schema"]
            /\ aiResult' = FallbackResult(newLineItem, firstMatch)
  /\ answers' = Append(answers, [entry |-> idx, ok |-> result'.ok, verdict |-> aiResult'])
  /\ pc' = "assessed"
  /\ UNCHANGED <<disconnected, other>>
  /\ UNCHANGED <<contracts, extractedAwardData, stream, uuids, existingContracts, idx,
                 duplicates, oracleCalls, findingEntry>>

\* As OracleThrows, with the error leaving detectVariableCostDuplicates and
\* ending the execute callback.
OracleThrowsPropagates ==
  /\ pc = "oracle"
  /\ result' = [ok |-> FALSE, error |-> "provider"]
  /\ pc' = "failed"
  /\ UNCHANGED <<disconnected, answers, other>>
  /\ UNCHANGED <<contracts, extractedAwardData, stream, uuids, existingContracts, idx,
                 duplicates, aiResult, oracleCalls, findingEntry>>

\* As OracleThrows, with one more attempt before the fallback.
OracleThrowsRetries ==
  /\ pc = "oracle"
  /\ IF Cardinality({k \in DOMAIN oracleCalls : oracleCalls[k].entry = idx}) < 2
     THEN /\ oracleCalls' = Append(oracleCalls, OracleCall(idx, newLineItem, firstMatch))
          /\ UNCHANGED <<pc, result, aiResult>>
     ELSE /\ result' = [ok |-> FALSE, error |-> "provider"]
          /\ aiResult' = FallbackResult(newLineItem, firstMatch)
          /\ pc' = "assessed"
          /\ UNCHANGED oracleCalls
  /\ answers' = Append(answers, [entry |-> idx, ok |-> FALSE,
                                 verdict |-> FallbackResult(newLineItem, firstMatch)])
  /\ UNCHANGED <<disconnected, other>>
  /\ UNCHANGED <<contracts, extractedAwardData, stream, uuids, existingContracts, idx,
                 duplicates, findingEntry>>

\* Lines 196-215: generateObject throws (provider error, timeout).
OracleThrows ==
  /\ pc = "oracle"
  /\ result' = [ok |-> FALSE, error |-> "provider"]
  /\ aiResult' = FallbackResult(newLineItem, firstMatch)
  /\ answers' = Append(answers, [entry |-> idx, ok |-> result'.ok, verdict |-> aiResult'])
  /\ pc' = "assessed"
  /\ UNCHANGED <<disconnected, other>>
  /\ UNCHANGED <<contracts, extractedAwardData, stream, uuids, existingContracts, idx,
                 duplicates, oracleCalls, findingEntry>>

\* Lines 385-404: back in POST with the verdict; the iteration ends.
RecordVerdict ==
  /\ pc = "assessed"
  /\ LET lineItem == getLineItemDetails(newLineItem.lineItemId)
         found == SemanticFindings(newLineItem, lineItem, Candidates, aiResult)
     IN  /\ duplicates' = Push(duplicates, found)
         /\ findingEntry' = findingEntry \o [k \in DOMAIN found |-> idx]
  /\ idx' = idx + 1
  /\ result' = None
  /\ aiResult' = None
  /\ pc' = "loop"
  /\ UNCHANGED <<disconnected, answers, other>>
  /\ UNCHANGED <<contracts, extractedAwardData, stream, uuids, existingContracts,
                 oracleCalls>>

\* As WarningChunk, with the first finding only.
WarningChunkFirstOnly(id, found) ==
  [type |-> "data-duplicate-warning", id |-> id,
   data |-> [duplicates |-> <<found[1]>>, requiresAcknowledgment |-> TRUE]]

\* Lines 411-419.
WarningChunk(id, found) ==
  [type |-> "data-duplicate-warning", id |-> id,
   data |-> [duplicates |-> found, requiresAcknowledgment |-> TRUE]]

\* As SummaryChunk, counting only the proposed entries that have a definition.
SummaryChunkCountsDefined(id, found, award) ==
  [type |-> "data-duplicate-summary", id |-> id,
   data |-> [totalDuplicates |-> Len(found),
             totalLineItems |->
               Len(SelectSeq(award.lineItems,
                             LAMBDA li : getLineItemDetails(li.lineItemId) # None)),
             warningLevel |-> warningLevel(Len(found))]]

\* Lines 429-439.
SummaryChunk(id, found, award) ==
  [type |-> "data-duplicate-summary", id |-> id,
   data |-> [totalDuplicates |-> Len(found),
             totalLineItems |-> Len(award.lineItems),
             warningLevel |-> warningLevel(Len(found))]]

\* As WarningParts, the summary written before the warning.
WarningPartsSummaryFirst(id, found, award) ==
  << SummaryChunk(id + 2, found, award), WarningChunk(id + 1, found) >>
  \o TextChunks(id + 3, warningText(Len(found)))

\* Lines 411-455: the warning, the summary and the closing text, with the
\* UUIDs after `id`.
WarningParts(id, found, award) ==
  << WarningChunk(id + 1, found), SummaryChunk(id + 2, found, award) >>
  \o TextChunks(id + 3, warningText(Len(found)))

\* Lines 409-455: findings were made.
EmitWarnings ==
  /\ pc = "loop"
  /\ idx > Len(lineItems)
  /\ Len(duplicates) > 0
  /\ stream' = stream \o WarningParts(uuids, duplicates, extractedAwardData)
  /\ uuids' = uuids + 3
  /\ pc' = "done"
  /\ UNCHANGED <<disconnected, answers, other>>
  /\ UNCHANGED <<contracts, extractedAwardData, existingContracts, idx, duplicates,
                 result, aiResult, oracleCalls, findingEntry>>

\* As EmitSuccess, recording the proposal in the store as an awarded contract.
EmitSuccessRecordsAward ==
  /\ pc = "loop"
  /\ idx > Len(lineItems)
  /\ Len(duplicates) = 0
  /\ stream' = stream \o TextChunks(uuids + 1, successText(Len(lineItems)))
  /\ uuids' = uuids + 1
  /\ pc' = "done"
  /\ contracts' = Append(contracts,
       [id |-> "contract-new", contractNumber |-> "PO-NEW",
        siteId |-> extractedAwardData.siteId, porId |-> extractedAwardData.porId,
        status |-> "awarded", lineItems |-> lineItems, awardedDate |-> "2025-03-01"])
  /\ UNCHANGED <<disconnected, answers, other>>
  /\ UNCHANGED <<extractedAwardData, existingContracts, idx, duplicates,
                 result, aiResult, oracleCalls, findingEntry>>

\* Lines 456-472: no finding.
EmitSuccess ==
  /\ pc = "loop"
  /\ idx > Len(lineItems)
  /\ Len(duplicates) = 0
  /\ stream' = stream \o TextChunks(uuids + 1, successText(Len(lineItems)))
  /\ uuids' = uuids + 1
  /\ pc' = "done"
  /\ UNCHANGED <<disconnected, answers, other>>
  /\ UNCHANGED <<contracts, extractedAwardData, existingContracts, idx, duplicates,
                 result, aiResult, oracleCalls, findingEntry>>

Next ==
  \/ WriteStatus
  \/ Converse
  \/ Search
  \/ SkipItem
  \/ AssessFixed
  \/ AssessVariable
  \/ OracleAnswers
  \/ OracleThrows
  \/ RecordVerdict
  \/ EmitWarnings
  \/ EmitSuccess

Spec == Init /\ [][Next]_vars

\* The event loop runs every continuation that is ready, the timers of the
\* store's queries fire, and the promise of generateObject settles (it
\* resolves or rejects): an evaluation that can take a step takes one.
FairSpec == Spec /\ WF_vars(Next)

\* The caller disconnects while the evaluation runs.  Nothing in POST reads
\* req.signal or passes an abort signal to generateObject, so no action of the
\* evaluation reads `disconnected`.
Disconnect ==
  /\ pc # "done"
  /\ ~disconnected
  /\ disconnected' = TRUE
  /\ UNCHANGED <<contracts, extractedAwardData, pc, stream, uuids, existingContracts,
                 idx, duplicates, result, aiResult, oracleCalls, findingEntry, answers,
                 other>>

NextOrDisconnect == Next \/ Disconnect

CancelSpec == Init /\ [][NextOrDisconnect]_vars

----------------------------------------------------------------------------
(* Two requests served by one process *)

\* What the execute callback of the running request holds: the variables of
\* its closure (lines 227-347) and its history.
Locals ==
  [extractedAwardData |-> extractedAwardData, pc |-> pc, stream |-> stream,
   uuids |-> uuids, existingContracts |-> existingContracts, idx |-> idx,
   duplicates |-> duplicates, result |-> result, aiResult |-> aiResult,
   oracleCalls |-> oracleCalls, findingEntry |-> findingEntry,
   disconnected |-> disconnected, answers |-> answers]

\* The closure of a request that has just arrived.
InitialLocals(award) ==
  [extractedAwardData |-> award, pc |-> "start", stream |-> <<>>,
   uuids |-> 0, existingContracts |-> <<>>, idx |-> 0,
   duplicates |-> <<>>, result |-> None, aiResult |-> None,
   oracleCalls |-> <<>>, findingEntry |-> <<>>,
   disconnected |-> FALSE, answers |-> <<>>]

\* The proposals of the two requests: a fixed-cost and a variable-cost entry
\* at site-001/por-001, the same variable-cost entry twice at the same site and
\* POR, a fixed-cost entry and one without definition at site-002/por-002,
\* and no proposal.
PairAwards ==
  { [siteId |-> "site-001", porId |-> "por-001",
     lineItems |-> << [lineItemId |-> "line-002", quantity |-> 1],
                      [lineItemId |-> "line-001", details |-> "Fiber cable splice testing"] >>],
    [siteId |-> "site-001", porId |-> "por-001",
     lineItems |->
       << [lineItemId |-> "line-001",
           details |-> "Install fiber optic cable infrastructure to connect building to main network"],
          [lineItemId |-> "line-001",
           details |-> "Install fiber optic cable infrastructure to connect building to main network"] >>],
    [siteId |-> "site-002", porId |-> "por-002",
     lineItems |-> << [lineItemId |-> "line-005", quantity |-> 2],
                      [lineItemId |-> "line-999", quantity |-> 1] >>],
    None }

\* Two requests have arrived; one runs, the other waits.
PairInit ==
  /\ contracts \in Stores
  /\ extractedAwardData \in PairAwards
  /\ pc = "start"
  /\ stream = <<>>
  /\ uuids = 0
  /\ existingContracts = <<>>
  /\ idx = 0
  /\ duplicates = <<>>
  /\ result = None
  /\ aiResult = None
  /\ oracleCalls = <<>>
  /\ findingEntry = <<>>
  /\ disconnected = FALSE
  /\ answers = <<>>
  /\ \E award \in PairAwards : other = InitialLocals(award)

\* As Switch, with the finding list held by the module instead of by each
\* request: it stays as it is when the other request goes on.
SwitchSharesFindings ==
  /\ other # None
  /\ other' = Locals
  /\ extractedAwardData' = other.extractedAwardData
  /\ pc' = other.pc
  /\ stream' = other.stream
  /\ uuids' = other.uuids
  /\ existingContracts' = other.existingContracts
  /\ idx' = other.idx
  /\ result' = other.result
  /\ aiResult' = other.aiResult
  /\ oracleCalls' = other.oracleCalls
  /\ findingEntry' = other.findingEntry
  /\ disconnected' = other.disconnected
  /\ answers' = other.answers
  /\ UNCHANGED <<contracts, duplicates>>

\* As Switch, with the result of the search held by the module instead of by
\* each request: it stays as it is when the other request goes on.
SwitchSharesSearch ==
  /\ other # None
  /\ other' = Locals
  /\ extractedAwardData' = other.extractedAwardData
  /\ pc' = other.pc
  /\ stream' = other.stream
  /\ uuids' = other.uuids
  /\ idx' = other.idx
  /\ duplicates' = other.duplicates
  /\ result' = other.result
  /\ aiResult' = other.aiResult
  /\ oracleCalls' = other.oracleCalls
  /\ findingEntry' = other.findingEntry
  /\ disconnected' = other.disconnected
  /\ answers' = other.answers
  /\ UNCHANGED <<contracts, existingContracts>>

\* The running request is suspended (at an await, or between two runs of the
\* event loop) and the other one goes on where it stood.  Each closure keeps
\* its own variables; MOCK_CONTRACTS is the module's.
Switch ==
  /\ other # None
  /\ other' = Locals
  /\ extractedAwardData' = other.extractedAwardData
  /\ pc' = other.pc
  /\ stream' = other.stream
  /\ uuids' = other.uuids
  /\ existingContracts' = other.existingContracts
  /\ idx' = other.idx
  /\ duplicates' = other.duplicates
  /\ result' = other.result
  /\ aiResult' = other.aiResult
  /\ oracleCalls' = other.oracleCalls
  /\ findingEntry' = other.findingEntry
  /\ disconnected' = other.disconnected
  /\ answers' = other.answers
  /\ UNCHANGED contracts

NextOrSwitch == Next \/ Switch

PairSpec == PairInit /\ [][NextOrSwitch]_vars

----------------------------------------------------------------------------
(* The fallback of detectVariableCostDuplicates on texts of all kinds *)

\* New details: mixed case, the README's text, a repeated token, no token
\* longer than 3 characters, runs of whitespace of several kinds, upper case
\* with a token of 3 characters, and the empty text.
NewTexts ==
  { "Fiber cable splice testing",
    "Install fiber optic cable infrastructure to connect building to main network",
    "cable cable trench",
    "to be or not",
    "  Lay\tcable  run\nnow ",
    "CABLE HUB",
    "" }

\* Existing details: the seed's texts, a text without any shared word, upper
\* case, a token inside a longer word, and a single letter.
ExistingTexts ==
  { "Install fiber optic cable from main hub to building basement",
    "Prepare site for fiber installation - trenching and conduit",
    "Paint the lobby walls",
    "CABLES and trenching",
    "Fiber Cable Splice Testing",
    "cable",
    "x" }

\* The proposed entries compared: line-001 with each new text, and without details.
ComparedEntries ==
  {[lineItemId |-> "line-001", details |-> d] : d \in NewTexts}
    \cup {[lineItemId |-> "line-001"]}

\* A store of one awarded contract that holds line-001 with the given details.
OneContractStore(details) ==
  << [id |-> "contract-001", contractNumber |-> "PO-2025-001",
      siteId |-> "site-001", porId |-> "por-001", status |-> "awarded",
      lineItems |-> << [lineItemId |-> "line-001", details |-> details] >>,
      awardedDate |-> "2025-01-15"] >>

\* An evaluation of one variable-cost entry that waits for generateObject.
FallbackInit ==
  \E entry \in ComparedEntries : \E details \in ExistingTexts :
    /\ contracts = OneContractStore(details)
    /\ extractedAwardData =
         [siteId |-> "site-001", porId |-> "por-001", lineItems |-> <<entry>>]
    /\ pc = "oracle"
    /\ stream = TextChunks(1, statusText([siteId |-> "site-001", porId |-> "por-001",
                                          lineItems |-> <<entry>>]))
    /\ uuids = 1
    /\ existingContracts = OneContractStore(details)
    /\ idx = 1
    /\ duplicates = <<>>
    /\ result = None
    /\ aiResult = None
    /\ oracleCalls =
         << OracleCall(1, entry, [contractId |-> "contract-001",
                                  contractNumber |-> "PO-2025-001",
                                  details |-> details]) >>
    /\ findingEntry = <<>>
    /\ disconnected = FALSE
    /\ answers = <<>>
    /\ other = None

\* generateObject fails: the catch block runs on the two texts.
FallbackSpec == FallbackInit /\ [][OracleThrows]_vars

----------------------------------------------------------------------------
(* Properties *)

HasAward == extractedAwardData # None

\* The evaluation has searched the store (the loop is running or over).
Searched == HasAward /\ pc \notin {"start", "search"}

FixedCostIds ==
  {MOCK_LINE_ITEMS[k].id : k \in {j \in DOMAIN MOCK_LINE_ITEMS : MOCK_LINE_ITEMS[j].type = "fixed-cost"}}

\* The contract shares site and POR with the proposal.
SharesSiteAndPor(contract) ==
  contract.siteId = extractedAwardData.siteId /\ contract.porId = extractedAwardData.porId

\* The proposed entries assessed so far: those before the loop index.
AssessedEntries == 1..(idx - 1)

\* The findings (by index) of one line item in one contract of one kind.
FindingsOf(lineItemId, contractId, matchType) ==
  {k \in DOMAIN duplicates :
     /\ duplicates[k].lineItemId = lineItemId
     /\ duplicates[k].existingContractId = contractId
     /\ duplicates[k].matchType = matchType}

\* C1: for every fixed-cost line item, and every contract of the store, the
\* finding list holds one exact finding per assessed proposed entry of that
\* line item if the contract is awarded, shares site and POR with the proposal
\* and holds the line item, and none otherwise: every matching contract is
\* reported, none twice for one entry.
C1_ExactFindingPerMatchingContract ==
  Searched =>
    \A id \in FixedCostIds : \A c \in DOMAIN contracts :
      Cardinality(FindingsOf(id, contracts[c].id, "exact")) =
        IF /\ contracts[c].status = "awarded"
           /\ SharesSiteAndPor(contracts[c])
           /\ HasLineItem(contracts[c], id)
        THEN Cardinality({i \in AssessedEntries : lineItems[i].lineItemId = id})
        ELSE 0

\* C1 witness: the evaluation is over and one proposed fixed-cost line item has
\* exact findings in two different contracts.
C1_Witness ==
  /\ pc = "done" /\ HasAward
  /\ \E j, k \in DOMAIN duplicates :
       /\ duplicates[j].matchType = "exact" /\ duplicates[k].matchType = "exact"
       /\ duplicates[j].lineItemId = duplicates[k].lineItemId
       /\ duplicates[j].lineItemId \in FixedCostIds
       /\ duplicates[j].existingContractId # duplicates[k].existingContractId

StatusOfContract(contractId) ==
  {contracts[c].status : c \in {j \in DOMAIN contracts : contracts[j].id = contractId}}

\* The payloads of the duplicate-warning chunks written so far.
WarningPayloads ==
  {stream[k].data : k \in {j \in DOMAIN stream : stream[j].type = "data-duplicate-warning"}}

\* C2: no finding, in the list or in an emitted duplicate-warning, refers to a
\* contract whose status is not 'awarded'; the seed's cancelled contract-004
\* never appears.
C2_NoFindingFromNonAwarded ==
  /\ \A k \in DOMAIN duplicates :
       /\ StatusOfContract(duplicates[k].existingContractId) = {"awarded"}
       /\ duplicates[k].existingContractId # "contract-004"
  /\ \A w \in WarningPayloads : \A k \in DOMAIN w.duplicates :
       StatusOfContract(w.duplicates[k].existingContractId) = {"awarded"}

\* C2 witness: an evaluation that ended with findings although a cancelled or
\* pending contract at the proposal's site and POR holds a proposed line item
\* that was found in an awarded contract.
C2_Witness ==
  /\ pc = "done" /\ HasAward /\ duplicates # <<>>
  /\ \E c \in DOMAIN contracts : \E k \in DOMAIN duplicates :
       /\ contracts[c].status # "awarded"
       /\ SharesSiteAndPor(contracts[c])
       /\ HasLineItem(contracts[c], duplicates[k].lineItemId)

\* An awarded contract at the proposal's site and POR holds the line item.
Overlaps(lineItemId) ==
  \E c \in DOMAIN contracts :
    /\ contracts[c].status = "awarded"
    /\ SharesSiteAndPor(contracts[c])
    /\ HasLineItem(contracts[c], lineItemId)

\* C3: every finding names a proposed line item and a contract of the store at
\* the proposal's site and POR that holds this line item; a proposed line item
\* that overlaps no awarded contract has no finding.
C3_FindingsNameAnOverlap ==
  HasAward =>
    /\ \A k \in DOMAIN duplicates :
         /\ \E i \in DOMAIN lineItems : lineItems[i].lineItemId = duplicates[k].lineItemId
         /\ \E c \in DOMAIN contracts :
              /\ contracts[c].id = duplicates[k].existingContractId
              /\ contracts[c].contractNumber = duplicates[k].existingContractNumber
              /\ SharesSiteAndPor(contracts[c])
              /\ HasLineItem(contracts[c], duplicates[k].lineItemId)
    /\ \A i \in DOMAIN lineItems :
         ~Overlaps(lineItems[i].lineItemId) =>
           \A k \in DOMAIN duplicates : duplicates[k].lineItemId # lineItems[i].lineItemId

\* C3 witness: an evaluation that ended with a finding for one proposed line
\* item while another proposed line item, which has a definition, overlaps no
\* awarded contract.
C3_Witness ==
  /\ pc = "done" /\ HasAward /\ duplicates # <<>>
  /\ \E i \in DOMAIN lineItems :
       /\ getLineItemDetails(lineItems[i].lineItemId) # None
       /\ ~Overlaps(lineItems[i].lineItemId)

\* No awarded contract shares site and POR with the proposal.
NoAwardedContractShares ==
  \A c \in DOMAIN contracts :
    contracts[c].status = "awarded" => ~SharesSiteAndPor(contracts[c])

ChunkTypes == [k \in DOMAIN stream |-> stream[k].type]

\* The delta of the last text part written.
LastDelta == stream[Len(stream) - 1].delta

\* C4: when no awarded contract shares the proposal's site and POR, the finding
\* list stays empty, neither a duplicate-warning nor a duplicate-summary is
\* written, and the evaluation ends with the 'no duplicates' message.
C4_NoSharedContractNoFinding ==
  (HasAward /\ NoAwardedContractShares) =>
    /\ duplicates = <<>>
    /\ \A k \in DOMAIN stream :
         stream[k].type \notin {"data-duplicate-warning", "data-duplicate-summary"}
    /\ pc = "done" =>
         /\ stream[Len(stream) - 1].type = "text-delta"
         /\ includes(LastDelta, "No duplicates found!")

\* C4 witness: the evaluation of a proposal with line items at site-003/por-003
\* is over.
C4_Witness ==
  /\ pc = "done" /\ HasAward /\ NoAwardedContractShares
  /\ extractedAwardData.siteId = "site-003" /\ extractedAwardData.porId = "por-003"
  /\ Len(lineItems) > 0

\* The Oracle call of the current entry has settled and
\* detectVariableCostDuplicates has returned.
OracleSettled == pc = "assessed" /\ result # None

\* C5: after a successful Oracle call the verdict is true exactly when the
\* Oracle reported is_duplicate or a similarity_score above 0.7: 0.7 itself
\* with is_duplicate false is not a duplicate.
C5_VerdictIsOrOfSignals ==
  (OracleSettled /\ result.ok) =>
    /\ aiResult.isDuplicate =
         (result.object.is_duplicate \/ GT(result.object.similarity_score, Frac(7, 10)))
    /\ (~result.object.is_duplicate /\ result.object.similarity_score = Frac(7, 10))
         => ~aiResult.isDuplicate

\* C5 witness: the Oracle answered is_duplicate = false with score 0.85 and the
\* verdict is true.
C5_Witness ==
  /\ OracleSettled /\ result.ok
  /\ ~result.object.is_duplicate
  /\ result.object.similarity_score = Frac(85, 100)
  /\ aiResult.isDuplicate

\* The overlap fraction, worked out by hand, of each proposed details text
\* against the details of contract-001 (the only text the stores offer for
\* comparison): 6 of 9 keywords, 2 of 4 keywords, and no keyword.
OverlapWithContract001(newDetails) ==
  CASE newDetails = "Install fiber optic cable infrastructure to connect building to main network"
         -> Frac(6, 9)
    [] newDetails = "Fiber cable splice testing" -> Frac(2, 4)
    [] OTHER -> Zero

\* The same fraction against the existing text of the call that failed: the
\* text of contract-001, or a text that shares no keyword with any proposal.
LexicalOverlap(newDetails, existingDetails) ==
  IF existingDetails = "Install fiber optic cable from main hub to building basement"
  THEN OverlapWithContract001(newDetails)
  ELSE Zero

\* C6: when the Oracle call fails, detectVariableCostDuplicates still returns,
\* with the lexical-overlap fraction as its score and a verdict that is true
\* exactly when that fraction is strictly above 0.5.
C6_FallbackVerdictAboveHalf ==
  (OracleSettled /\ ~result.ok) =>
    /\ aiResult # None
    /\ aiResult.similarityScore =
         LexicalOverlap(DetailsOr(newLineItem, ""),
                        oracleCalls[Len(oracleCalls)].prompt.existingDetails)
    /\ aiResult.isDuplicate = GT(aiResult.similarityScore, Frac(1, 2))

\* C6 witness: the Oracle call failed, the overlap fraction is exactly 0.5 and
\* the verdict is false.
C6_Witness ==
  /\ OracleSettled /\ ~result.ok
  /\ aiResult.similarityScore = Frac(1, 2)
  /\ ~aiResult.isDuplicate

\* The chunks (by index) of one type written so far.
ChunksOfType(type) == {k \in DOMAIN stream : stream[k].type = type}

\* C7: every duplicate-summary written carries the level of the number of
\* findings: 'low' for 1, 'medium' for 2 or 3, 'high' for 4 or more; with no
\* finding no summary (and so no level) is written.
C7_WarningLevelByCount ==
  HasAward =>
    /\ \A k \in ChunksOfType("data-duplicate-summary") :
         LET n == Len(duplicates)
             level == stream[k].data.warningLevel
         IN  /\ n >= 1
             /\ stream[k].data.totalDuplicates = n
             /\ (level = "low") = (n = 1)
             /\ (level = "medium") = (n \in {2, 3})
             /\ (level = "high") = (n >= 4)
    /\ duplicates = <<>> => ChunksOfType("data-duplicate-summary") = {}

\* C7 witness: a summary of four or more findings with level 'high'.
C7_Witness ==
  /\ pc = "done" /\ HasAward /\ Len(duplicates) >= 4
  /\ \E k \in ChunksOfType("data-duplicate-summary") : stream[k].data.warningLevel = "high"

\* C8: at the end of an evaluation with award data a duplicate-warning has been
\* written exactly when there are findings, and so has a duplicate-summary;
\* neither is ever written twice; the warning requires acknowledgment and
\* carries exactly the findings accumulated.
C8_WarningAndSummaryTogether ==
  HasAward =>
    /\ Cardinality(ChunksOfType("data-duplicate-warning")) <= 1
    /\ Cardinality(ChunksOfType("data-duplicate-summary")) <= 1
    /\ pc = "done" =>
         /\ (ChunksOfType("data-duplicate-warning") # {}) = (duplicates # <<>>)
         /\ (ChunksOfType("data-duplicate-summary") # {}) = (duplicates # <<>>)
    /\ \A k \in ChunksOfType("data-duplicate-warning") :
         /\ stream[k].data.requiresAcknowledgment = TRUE
         /\ stream[k].data.duplicates = duplicates

\* C8 witness: an evaluation that ended with several findings and a warning.
C8_Witness ==
  /\ pc = "done" /\ HasAward /\ Len(duplicates) >= 2
  /\ ChunksOfType("data-duplicate-warning") # {}

\* stream[k..k+2] is one text part.
TextPartAt(k) ==
  /\ k + 2 <= Len(stream)
  /\ stream[k].type = "text-start"
  /\ stream[k + 1].type = "text-delta"
  /\ stream[k + 2].type = "text-end"
  /\ stream[k].id = stream[k + 1].id /\ stream[k + 1].id = stream[k + 2].id

StartsWith(text, prefix) == SubSeq(text, 1, Len(prefix)) = prefix

\* The status text of the proposal.
IsStatusText(delta) ==
  /\ StartsWith(delta, "Checking for duplicates in award:")
  /\ includes(delta, "- Site: " \o extractedAwardData.siteId \o "\n")
  /\ includes(delta, "- POR: " \o extractedAwardData.porId \o "\n")
  /\ includes(delta, "- Line Items: " \o ToString(Len(lineItems)) \o "\n")

\* The closing text of the evaluation.
IsNarrative(delta) ==
  IF duplicates = <<>>
  THEN includes(delta, "No duplicates found!")
  ELSE includes(delta, "Found " \o ToString(Len(duplicates)) \o " duplicate line item(s)")

\* C9: with award data the stream is ordered: nothing is written before the
\* status text, which is there before the store is searched; nothing more is
\* written while the entries are assessed; at the end the stream is the status
\* text, then (with findings) the duplicate-warning followed by the
\* duplicate-summary, then one closing text: the success message without
\* findings, the warning message with their number otherwise.
C9_EventsInOrder ==
  HasAward =>
    /\ pc = "start" => stream = <<>>
    /\ pc # "start" => TextPartAt(1) /\ IsStatusText(stream[2].delta)
    /\ pc = "search" => existingContracts = <<>> /\ idx = 0
    /\ pc \in {"search", "loop", "oracle", "assessed"} => Len(stream) = 3
    /\ pc = "done" =>
         /\ SubSeq(ChunkTypes, 4, Len(stream) - 3) =
              IF duplicates = <<>> THEN <<>>
              ELSE <<"data-duplicate-warning", "data-duplicate-summary">>
         /\ TextPartAt(Len(stream) - 2)
         /\ IsNarrative(LastDelta)
         /\ ~IsStatusText(LastDelta)

\* C9 witness: an evaluation that ended with findings.
C9_Witness ==
  /\ pc = "done" /\ HasAward /\ duplicates # <<>>
  /\ Len(stream) = 8

\* The place of a contract in the store.
StorePosition(contractId) ==
  CHOOSE c \in DOMAIN contracts : contracts[c].id = contractId

\* C10: the findings are in the order of the proposal: each finding belongs to
\* the proposed entry that produced it, the entries of successive findings
\* never go back, and the findings of one entry are in the store order of
\* their contracts; the duplicate-warning carries them in this order.
C10_FindingsInProposalOrder ==
  HasAward =>
    /\ Len(findingEntry) = Len(duplicates)
    /\ \A k \in DOMAIN duplicates :
         /\ findingEntry[k] \in DOMAIN lineItems
         /\ duplicates[k].lineItemId = lineItems[findingEntry[k]].lineItemId
    /\ \A j, k \in DOMAIN duplicates :
         j < k =>
           /\ findingEntry[j] <= findingEntry[k]
           /\ findingEntry[j] = findingEntry[k] =>
                /\ \A m \in j..k : findingEntry[m] = findingEntry[j]
                /\ StorePosition(duplicates[j].existingContractId)
                     < StorePosition(duplicates[k].existingContractId)
    /\ \A w \in WarningPayloads : w.duplicates = duplicates

\* C10 witness: a duplicate-warning with two findings of the first entry, in
\* two contracts, before a finding of the second entry, of another line item.
C10_Witness ==
  /\ pc = "done" /\ HasAward /\ Len(duplicates) = 3 /\ WarningPayloads # {}
  /\ findingEntry = <<1, 1, 2>>
  /\ duplicates[1].lineItemId # duplicates[3].lineItemId

\* The type of the definition of a line item, "" without definition.
TypeOfLineItem(lineItemId) ==
  LET lineItem == getLineItemDetails(lineItemId)
  IN  IF lineItem = None THEN "" ELSE lineItem.type

\* The findings held in the list or written in a duplicate-warning chunk.
AllFindings ==
  Range(duplicates) \cup UNION {Range(w.duplicates) : w \in WarningPayloads}

\* C11: every finding produced, in the list or in an emitted duplicate-warning,
\* refers to a line item that has a definition, and its matchType is 'exact'
\* if and only if that definition is fixed-cost and 'semantic' if and only if
\* it is variable-cost.
C11_MatchTypeFollowsCostType ==
  \A f \in AllFindings :
    /\ TypeOfLineItem(f.lineItemId) \in {"fixed-cost", "variable-cost"}
    /\ f.matchType = "exact" <=> TypeOfLineItem(f.lineItemId) = "fixed-cost"
    /\ f.matchType = "semantic" <=> TypeOfLineItem(f.lineItemId) = "variable-cost"

\* C11 witness: an evaluation that ended with an exact finding for a fixed-cost
\* line item and a semantic finding for a variable-cost one.
C11_Witness ==
  /\ pc = "done"
  /\ \E j, k \in DOMAIN duplicates :
       /\ duplicates[j].matchType = "exact"
       /\ TypeOfLineItem(duplicates[j].lineItemId) = "fixed-cost"
       /\ duplicates[k].matchType = "semantic"
       /\ TypeOfLineItem(duplicates[k].lineItemId) = "variable-cost"

\* C12: a proposal whose site or project-reference identifier is empty is
\* rejected before anything is written: the stream of its evaluation stays
\* empty (no status text, no duplicate-warning, no narrative).
C12_InvalidProposalRejected ==
  (HasAward /\ (extractedAwardData.siteId = "" \/ extractedAwardData.porId = ""))
    => stream = <<>>

\* The i-th proposed entry names a line item that has no definition.
WithoutDefinition(i) ==
  \A k \in DOMAIN MOCK_LINE_ITEMS : MOCK_LINE_ITEMS[k].id # lineItems[i].lineItemId

\* No finding and no Oracle call is made for an entry without definition, and
\* the evaluation is in no other place than those of a normal run.
SkippedEntriesLeaveNoTrace ==
  /\ pc \in {"start", "search", "loop", "oracle", "assessed", "done"}
  /\ HasAward =>
       /\ \A k \in DOMAIN findingEntry : ~WithoutDefinition(findingEntry[k])
       /\ \A k \in DOMAIN oracleCalls : ~WithoutDefinition(oracleCalls[k].entry)

\* The loop stands at an entry without definition.
AtEntryWithoutDefinition ==
  pc = "loop" /\ idx <= Len(lineItems) /\ WithoutDefinition(idx)

\* The step goes on to the next entry and touches nothing else.
GoesToNextEntryOnly ==
  /\ pc' = "loop" /\ idx' = idx + 1
  /\ duplicates' = duplicates /\ findingEntry' = findingEntry
  /\ oracleCalls' = oracleCalls /\ stream' = stream

\* C13: a proposed entry whose line-item id has no definition is skipped
\* silently: the step taken at it goes on to the next entry and leaves the
\* finding list, the Oracle calls and the stream as they are (the findings of
\* the entries before it are kept, those after it are still assessed), and no
\* finding and no Oracle call is ever made for such an entry.
C13_UndefinedEntrySkipped ==
  /\ []SkippedEntriesLeaveNoTrace
  /\ [][AtEntryWithoutDefinition => GoesToNextEntryOnly]_vars

\* C13 witness: an evaluation that ended with a finding for its second entry
\* after skipping a first entry without definition whose line-item id is held
\* by an awarded contract at the proposal's site and POR.
C13_Witness ==
  /\ pc = "done" /\ HasAward
  /\ Len(lineItems) = 2
  /\ WithoutDefinition(1)
  /\ Overlaps(lineItems[1].lineItemId)
  /\ \E k \in DOMAIN findingEntry : findingEntry[k] = 2

\* The findings (by index) pushed for the i-th proposed entry.
FindingsOfEntry(i) == {k \in DOMAIN findingEntry : findingEntry[k] = i}

\* The awarded contracts (by store index) at the proposal's site and POR that
\* hold the line item with details.
ContractsWithDetails(lineItemId) ==
  {c \in DOMAIN contracts :
     /\ contracts[c].status = "awarded"
     /\ SharesSiteAndPor(contracts[c])
     /\ \E e \in DOMAIN contracts[c].lineItems :
          /\ contracts[c].lineItems[e].lineItemId = lineItemId
          /\ DetailsOr(contracts[c].lineItems[e], "") # ""}

\* C14: each variable-cost proposed entry has at most one finding in the
\* finding list, however many awarded contracts at the proposal's site and POR
\* hold its line item.
C14_AtMostOneFindingPerVariableEntry ==
  HasAward =>
    \A i \in DOMAIN lineItems :
      TypeOfLineItem(lineItems[i].lineItemId) = "variable-cost"
        => Cardinality(FindingsOfEntry(i)) <= 1

\* C14 witness: an evaluation that ended with a finding for a variable-cost
\* entry whose line item is held, with details, by two awarded contracts at
\* the proposal's site and POR.
C14_Witness ==
  /\ pc = "done" /\ HasAward
  /\ \E i \in DOMAIN lineItems :
       /\ TypeOfLineItem(lineItems[i].lineItemId) = "variable-cost"
       /\ Cardinality(ContractsWithDetails(lineItems[i].lineItemId)) >= 2
       /\ FindingsOfEntry(i) # {}

\* The least element of a non-empty set of numbers.
Least(S) == CHOOSE x \in S : \A y \in S : x <= y

\* The entries (by index) of a contract for the line item with details.
EntriesWithDetails(contract, lineItemId) ==
  {e \in DOMAIN contract.lineItems :
     /\ contract.lineItems[e].lineItemId = lineItemId
     /\ DetailsOr(contract.lineItems[e], "") # ""}

\* The details of the contract's first entry for the line item with details.
FirstDetails(contract, lineItemId) ==
  contract.lineItems[Least(EntriesWithDetails(contract, lineItemId))].details

\* The first candidate entry with details for the line item: the first such
\* entry of the first awarded contract, in store order, at the proposal's site
\* and POR that has one.
FirstComparable(lineItemId) ==
  LET contract == contracts[Least(ContractsWithDetails(lineItemId))]
  IN  [contractId |-> contract.id,
       contractNumber |-> contract.contractNumber,
       details |-> FirstDetails(contract, lineItemId)]

\* A comparison was made for the line item of the i-th entry: its existing
\* text and contract are those of the first comparable candidate.
ComparesFirstComparable(i, contractId, existingDetails) ==
  /\ ContractsWithDetails(lineItems[i].lineItemId) # {}
  /\ contractId = FirstComparable(lineItems[i].lineItemId).contractId
  /\ existingDetails = FirstComparable(lineItems[i].lineItemId).details

\* C15: for a variable-cost proposed entry, every Oracle call and every
\* fallback comparison uses the details of the first candidate entry with
\* non-empty details (store order of the contracts, entry order within the
\* contract), the verdict names that candidate's contract, and a semantic
\* finding carries that contract's id and that contract's non-empty number.
C15_OnlyFirstComparableCompared ==
  HasAward =>
    /\ \A k \in DOMAIN oracleCalls :
         ComparesFirstComparable(oracleCalls[k].entry, oracleCalls[k].contractId,
                                 oracleCalls[k].prompt.existingDetails)
    /\ OracleSettled =>
         /\ ContractsWithDetails(newLineItem.lineItemId) # {}
         /\ aiResult.matchingContractId = FirstComparable(newLineItem.lineItemId).contractId
         /\ ~result.ok =>
              aiResult = FallbackResult(newLineItem, FirstComparable(newLineItem.lineItemId))
    /\ \A k \in DOMAIN duplicates :
         duplicates[k].matchType = "semantic" =>
           /\ ContractsWithDetails(duplicates[k].lineItemId) # {}
           /\ duplicates[k].existingContractId
                = FirstComparable(duplicates[k].lineItemId).contractId
           /\ duplicates[k].existingContractNumber
                = FirstComparable(duplicates[k].lineItemId).contractNumber
           /\ duplicates[k].existingContractNumber # ""

\* A candidate after the first comparable one holds details that the fallback
\* would judge a duplicate of the i-th entry.
LaterCandidateIsFallbackDuplicate(i) ==
  \E c \in ContractsWithDetails(lineItems[i].lineItemId) :
    \E e \in EntriesWithDetails(contracts[c], lineItems[i].lineItemId) :
      /\ contracts[c].lineItems[e].details # FirstComparable(lineItems[i].lineItemId).details
      /\ FallbackResult(lineItems[i], [contractId |-> contracts[c].id,
                                       details |-> contracts[c].lineItems[e].details]).isDuplicate

\* C15 witness: an evaluation of two variable-cost entries, each compared by
\* one Oracle call, that ended without a finding for the first entry, although
\* a later candidate would have been judged a duplicate of it, and with a
\* finding for the second.
C15_Witness ==
  /\ pc = "done" /\ HasAward
  /\ Len(lineItems) = 2 /\ Len(oracleCalls) = 2
  /\ Cardinality(ContractsWithDetails(lineItems[1].lineItemId)) >= 2
  /\ LaterCandidateIsFallbackDuplicate(1)
  /\ FindingsOfEntry(1) = {}
  /\ FindingsOfEntry(2) # {}
  /\ duplicates[1].matchType = "semantic"

\* The Oracle calls (by index) made for the i-th proposed entry.
CallsOfEntry(i) == {k \in DOMAIN oracleCalls : oracleCalls[k].entry = i}

\* The current entry is a variable-cost one that some candidate contract
\* holds, and no candidate holds it with details.
NothingComparable ==
  /\ HasAward /\ idx \in DOMAIN lineItems
  /\ TypeOfLineItem(newLineItem.lineItemId) = "variable-cost"
  /\ Overlaps(newLineItem.lineItemId)
  /\ ContractsWithDetails(newLineItem.lineItemId) = {}

\* C16: when no candidate contract holds the proposed variable-cost line item
\* with non-empty details, detectVariableCostDuplicates returns isDuplicate
\* false with score 0 and the Oracle is not called; no Oracle call and no
\* finding is ever made for such an entry.
C16_NothingComparableShortCircuits ==
  /\ NothingComparable =>
       /\ pc # "oracle"
       /\ pc = "assessed" =>
            /\ result = None
            /\ aiResult.isDuplicate = FALSE
            /\ aiResult.similarityScore = Zero
  /\ HasAward =>
       \A i \in DOMAIN lineItems :
         (/\ TypeOfLineItem(lineItems[i].lineItemId) = "variable-cost"
          /\ ContractsWithDetails(lineItems[i].lineItemId) = {})
           => CallsOfEntry(i) = {} /\ FindingsOfEntry(i) = {}

\* C16 witness: detectVariableCostDuplicates has returned for a variable-cost
\* entry held, without details only, by an awarded contract at the proposal's
\* site and POR.
C16_Witness ==
  /\ NothingComparable
  /\ pc = "assessed"
  /\ aiResult = NoCompareResult

\* The i-th proposed entry is a variable-cost one without details.
WithoutDetails(i) ==
  /\ TypeOfLineItem(lineItems[i].lineItemId) = "variable-cost"
  /\ ("details" \notin DOMAIN lineItems[i] \/ lineItems[i].details = "")

ValidProposal ==
  HasAward /\ extractedAwardData.siteId # "" /\ extractedAwardData.porId # ""

\* The evaluation is over: every proposed entry was gone through and the
\* closing narrative was written as the last text of the stream.
Completed ==
  /\ HasAward
  /\ pc = "done"
  /\ idx = Len(lineItems) + 1
  /\ Len(stream) >= 2
  /\ stream[Len(stream)].type = "text-end"
  /\ IsNarrative(LastDelta)

\* The entries (by index) whose Oracle call failed and whose fallback verdict
\* was a duplicate: their finding carries the fallback's reasoning.
FallbackFindingEntries ==
  {findingEntry[k] : k \in {j \in DOMAIN duplicates :
     /\ duplicates[j].matchType = "semantic"
     /\ StartsWith(duplicates[j].aiReasoning, "Keyword-based")}}

\* C18: every evaluation of a proposal with a site and a POR eventually
\* completes, with all its entries gone through and the closing narrative
\* written, whichever of its Oracle calls fail: from every state of such an
\* evaluation, those right after a failed Oracle call included, completion
\* follows.
C18_EvaluationCompletes ==
  /\ ValidProposal ~> Completed
  /\ (ValidProposal /\ OracleSettled /\ ~result.ok) ~> Completed

\* C18 witness: a completed evaluation of two entries in which the Oracle call
\* for the first entry failed (its finding is the fallback's) and the second
\* entry was assessed and reported after it.
C18_Witness ==
  /\ ValidProposal /\ Completed
  /\ 1 \in FallbackFindingEntries
  /\ FindingsOfEntry(2) # {}

\* The proposed entries (by index) of variable-cost line items.
VariableCostEntries ==
  {i \in DOMAIN lineItems : TypeOfLineItem(lineItems[i].lineItemId) = "variable-cost"}

\* C19: the Oracle is called at most once for each proposed entry and only for
\* variable-cost entries, so that the calls of one evaluation are never more
\* than its variable-cost entries; after a failed call the verdict is the
\* fallback's and that call remains the entry's only one.
C19_OneOracleAttemptPerEntry ==
  HasAward =>
    /\ \A i \in DOMAIN lineItems : Cardinality(CallsOfEntry(i)) <= 1
    /\ \A k \in DOMAIN oracleCalls : oracleCalls[k].entry \in VariableCostEntries
    /\ Len(oracleCalls) <= Cardinality(VariableCostEntries)
    /\ (OracleSettled /\ ~result.ok) =>
         /\ StartsWith(aiResult.reasoning, "Keyword-based")
         /\ Cardinality(CallsOfEntry(idx)) = 1

\* C19 witness: an evaluation that ended after reporting a fixed-cost entry
\* and a variable-cost entry whose Oracle call failed, with one Oracle call in
\* all.
C19_Witness ==
  /\ pc = "done" /\ HasAward
  /\ Len(oracleCalls) = 1
  /\ FallbackFindingEntries # {}
  /\ \E k \in DOMAIN duplicates : duplicates[k].matchType = "exact"

\* C20: once the caller has disconnected the producer stops: no step after the
\* disconnect starts an Oracle call, and a call in flight at the disconnect is
\* abandoned, its answer or failure never being taken up.
C20_StopsAfterDisconnect ==
  [][disconnected => (oracleCalls' = oracleCalls /\ (pc = "oracle" => pc' = "oracle"))]_vars

\* Scenario 1 of the README: one Network Switch at site-001 / por-001, against
\* the seeded store.
ScenarioExactMatch ==
  /\ contracts = MOCK_CONTRACTS
  /\ extractedAwardData =
       [siteId |-> "site-001", porId |-> "por-001",
        lineItems |-> << [lineItemId |-> "line-002", quantity |-> 1] >>]

\* The payloads of the duplicate-summary chunks written so far.
SummaryPayloads ==
  {stream[k].data : k \in ChunksOfType("data-duplicate-summary")}

\* C22: against the seeded store the proposal {site-001, por-001, [line-002
\* with quantity 1]} ends with exactly one finding, exact, for contract-001
\* (PO-2025-001), and with one duplicate-summary of totalDuplicates 1 and
\* warningLevel 'low'; contract-003, which holds line-002 at site-002/por-002,
\* is in no finding at any time.
C22_ScenarioExactMatch ==
  ScenarioExactMatch =>
    /\ \A k \in DOMAIN duplicates : duplicates[k].existingContractId # "contract-003"
    /\ pc = "done" =>
         /\ duplicates =
              << [lineItemId |-> "line-002",
                  lineItemName |-> "Network Switch",
                  existingContractId |-> "contract-001",
                  existingContractNumber |-> "PO-2025-001",
                  matchType |-> "exact"] >>
         /\ SummaryPayloads =
              {[totalDuplicates |-> 1, totalLineItems |-> 1, warningLevel |-> "low"]}

\* C22 witness: the evaluation of the scenario is over, with a finding.
C22_Witness ==
  ScenarioExactMatch /\ pc = "done" /\ Len(duplicates) = 1

\* A finding with the fields of its kind: score and rationale for a semantic
\* one, with the score in [0,1], and neither for an exact one.
WellFormedFinding(f) ==
  /\ f.matchType \in {"exact", "semantic"}
  /\ ("similarityScore" \in DOMAIN f) <=> f.matchType = "semantic"
  /\ ("aiReasoning" \in DOMAIN f) <=> f.matchType = "semantic"
  /\ f.matchType = "semantic" =>
       LE(Zero, f.similarityScore) /\ LE(f.similarityScore, One)

\* The Oracle call of the current entry succeeded.
OracleSucceeded == OracleSettled /\ result.ok

\* The step appends one semantic finding with the score and the reasoning of
\* the Oracle's answer if the answer says duplicate or scores above 0.7, and
\* appends nothing otherwise.
RecordsOracleAnswer ==
  IF result.object.is_duplicate \/ GT(result.object.similarity_score, Frac(7, 10))
  THEN /\ Len(duplicates') = Len(duplicates) + 1
       /\ SubSeq(duplicates', 1, Len(duplicates)) = duplicates
       /\ duplicates'[Len(duplicates')].matchType = "semantic"
       /\ duplicates'[Len(duplicates')].similarityScore = result.object.similarity_score
       /\ duplicates'[Len(duplicates')].aiReasoning = result.object.reasoning
  ELSE duplicates' = duplicates

\* C23: a finding, in the list or in an emitted duplicate-warning, carries a
\* similarity score and a rationale if and only if it is semantic, the score
\* lying in [0,1]; the step that records a successful Oracle call appends a
\* semantic finding with exactly the score and reasoning the Oracle returned.
C23_ScoreAndRationaleOnSemanticOnly ==
  /\ [](\A f \in AllFindings : WellFormedFinding(f))
  /\ [][OracleSucceeded => RecordsOracleAnswer]_vars

\* C23 witness: an evaluation that ended with an exact finding and with a
\* semantic finding carrying the Oracle's score 0.85 and its reasoning.
C23_Witness ==
  /\ pc = "done" /\ HasAward
  /\ \E j, k \in DOMAIN duplicates :
       /\ duplicates[j].matchType = "exact"
       /\ duplicates[k].matchType = "semantic"
       /\ duplicates[k].similarityScore = Frac(85, 100)
       /\ duplicates[k].aiReasoning = "Same work activity"

\* The Oracle calls made and not yet settled.
InFlight == Len(oracleCalls) - Len(answers)

\* C24: the entries are assessed one after the other: at most one Oracle call
\* is in flight, and only while the evaluation waits for it at the current
\* entry; the calls are made and settled in the order of the entries, every
\* settled call belongs to an entry before the current one or to the current
\* one just assessed, and no finding belongs to an entry after the current one.
C24_EntriesAssessedSequentially ==
  HasAward =>
    /\ InFlight \in {0, 1}
    /\ InFlight = 1 <=> pc = "oracle"
    /\ \A j, k \in DOMAIN oracleCalls : j < k => oracleCalls[j].entry < oracleCalls[k].entry
    /\ \A k \in DOMAIN answers : answers[k].entry = oracleCalls[k].entry
    /\ \A k \in DOMAIN oracleCalls :
         IF k \in DOMAIN answers
         THEN oracleCalls[k].entry < idx \/ (oracleCalls[k].entry = idx /\ pc = "assessed")
         ELSE oracleCalls[k].entry = idx
    /\ \A k \in DOMAIN findingEntry : findingEntry[k] < idx

\* C24 witness: the Oracle call of the second entry is in flight after the
\* call of the first entry has settled and its finding has been recorded.
C24_Witness ==
  /\ HasAward /\ pc = "oracle" /\ idx = 2
  /\ Len(oracleCalls) = 2 /\ Len(answers) = 1
  /\ answers[1].entry = 1
  /\ FindingsOfEntry(1) # {}

\* The settled Oracle calls of an evaluation: the two texts compared, whether
\* the call succeeded, and the verdict that came back.
SettledCalls(l) ==
  {[prompt |-> l.oracleCalls[k].prompt, ok |-> l.answers[k].ok,
    verdict |-> l.answers[k].verdict] : k \in DOMAIN l.answers}

\* The Oracle has answered every pair of texts in one way only, within and
\* across the two evaluations.
SameOracle ==
  \A x, y \in SettledCalls(Locals) \cup SettledCalls(other) : x.prompt = y.prompt => x = y

\* The payloads of the duplicate-summary chunks of a stream.
SummaryPayloadsOf(s) ==
  {s[k].data : k \in {j \in DOMAIN s : s[j].type = "data-duplicate-summary"}}

\* Both requests carry the same proposal and both evaluations are over.
EvaluatedTwice ==
  /\ HasAward /\ other # None
  /\ other.extractedAwardData = extractedAwardData
  /\ pc = "done" /\ other.pc = "done"

\* C21: two evaluations of the same proposal against the same store, with an
\* Oracle that settles the same pair of texts the same way, end with the same
\* ordered finding list and with the same summary (totals and warningLevel),
\* however the two evaluations were interleaved, one after the other included.
C21_SameProposalSameFindings ==
  (EvaluatedTwice /\ SameOracle) =>
    /\ duplicates = other.duplicates
    /\ SummaryPayloadsOf(stream) = SummaryPayloadsOf(other.stream)

\* C21 witness: the same proposal was evaluated twice with Oracle calls settled
\* the same way, and both evaluations ended with two findings.
C21_Witness ==
  /\ EvaluatedTwice /\ SameOracle
  /\ Len(answers) >= 1 /\ Len(other.answers) >= 1
  /\ Len(duplicates) >= 2
  /\ \E k \in DOMAIN duplicates : duplicates[k].matchType = "semantic"

\* Without the assumption on the Oracle the two finding lists may differ.
EvaluatedTwiceWithAnyOracle ==
  EvaluatedTwice => duplicates = other.duplicates

\* What a request running alone finds for the i-th entry of its proposal,
\* given how its own Oracle calls settled.
AloneEntryFindings(store, award, settled, i) ==
  LET item == award.lineItems[i]
      lineItem == getLineItemDetails(item.lineItemId)
      existing ==
        searchExistingContracts(store,
          [siteId |-> award.siteId, porId |-> award.porId,
           lineItemIds |-> [k \in DOMAIN award.lineItems |-> award.lineItems[k].lineItemId]])
      cs == contractsWithLineItem(existing, item.lineItemId)
      own == SelectSeq(settled, LAMBDA a : a.entry = i)
  IN  IF lineItem = None \/ cs = <<>> THEN <<>>
      ELSE IF lineItem.type = "fixed-cost" THEN ExactFindings(item, lineItem, cs)
      ELSE IF own = <<>> THEN <<>>
      ELSE SemanticFindings(item, lineItem, cs, own[1].verdict)

\* The finding list of a request running alone after its first n entries.
RECURSIVE AloneFindings(_, _, _, _)
AloneFindings(store, award, settled, n) ==
  IF n = 0 THEN <<>>
  ELSE AloneFindings(store, award, settled, n - 1)
       \o AloneEntryFindings(store, award, settled, n)

\* The stream of a request running alone: nothing, then the status text,
\* then at the end the warning, the summary and the closing text, or the
\* success text.
AloneStream(award, at, found) ==
  IF at = "start" THEN <<>>
  ELSE IF at # "done" THEN TextChunks(1, statusText(award))
  ELSE TextChunks(1, statusText(award))
       \o (IF found = <<>> THEN TextChunks(2, successText(Len(award.lineItems)))
           ELSE WarningParts(1, found, award))

\* The request with closure l stands where it would stand had it run alone:
\* its finding list and its stream are those of its own proposal, of the
\* store and of its own Oracle calls.
AsIfAlone(l) ==
  (l.extractedAwardData # None /\ l.pc \notin {"start", "search"}) =>
    /\ \A k \in DOMAIN l.answers : l.answers[k].entry = l.oracleCalls[k].entry
    /\ l.duplicates =
         AloneFindings(contracts, l.extractedAwardData, l.answers, l.idx - 1)
    /\ l.stream = AloneStream(l.extractedAwardData, l.pc, l.duplicates)

\* C26: with two requests whose steps interleave in any way, each request's
\* finding list and stream are at every moment those it would have alone:
\* they depend on its own proposal, the store and its own Oracle calls only.
C26_RequestsIndependent ==
  /\ AsIfAlone(Locals)
  /\ other # None => AsIfAlone(other)

\* C26 witness: two requests with different proposals both wait for an Oracle
\* call, the running one holds findings already, and the other one has ended
\* its first entry.
C26_Witness ==
  /\ other # None /\ HasAward /\ other.extractedAwardData # None
  /\ other.extractedAwardData # extractedAwardData
  /\ pc = "oracle" /\ other.pc = "oracle"
  /\ duplicates # <<>>
  /\ other.idx = 2

\* C25: the record store is the one of the process start at every moment and
\* no step of any evaluation changes it: the contracts, with their status and
\* line items, stay as they are through any interleaving of two evaluations
\* (the line-item definitions are the fixed table MOCK_LINE_ITEMS).
C25_StoreNeverChanges ==
  /\ [](contracts \in Stores)
  /\ [][contracts' = contracts]_vars

\* C25 witness: two evaluations are over, one with findings and one that
\* ended with the success message.
C25_Witness ==
  /\ contracts \in Stores
  /\ other # None /\ HasAward /\ other.extractedAwardData # None
  /\ pc = "done" /\ other.pc = "done"
  /\ duplicates = <<>> /\ other.duplicates # <<>>

\* C27: every duplicate-summary written has, in the same stream, exactly one
\* duplicate-warning, and its totalDuplicates is the number of findings of
\* that warning; its totalLineItems is the number of entries of the proposal,
\* those skipped for want of a definition included.
C27_SummaryTotals ==
  HasAward =>
    \A s \in SummaryPayloads :
      /\ Cardinality(WarningPayloads) = 1
      /\ \A w \in WarningPayloads : s.totalDuplicates = Len(w.duplicates)
      /\ s.totalLineItems = Len(lineItems)

\* C27 witness: a summary was written for a proposal of two entries, one of
\* them without definition, with one finding.
C27_Witness ==
  /\ pc = "done" /\ HasAward
  /\ Len(lineItems) = 2
  /\ \E i \in DOMAIN lineItems : WithoutDefinition(i)
  /\ [totalDuplicates |-> 1, totalLineItems |-> 2, warningLevel |-> "low"] \in SummaryPayloads

\* The findings written to the stream so far.
EmittedFindings == UNION {Range(w.duplicates) : w \in WarningPayloads}

\* An entry of the proposal is being assessed.
AssessingAnEntry ==
  HasAward /\ pc \in {"loop", "oracle", "assessed"} /\ idx \in DOMAIN lineItems

TokenSpans(s) ==
  {sp \in (1..Len(s)) \X (1..Len(s)) :
     /\ sp[1] <= sp[2]
     /\ \A i \in sp[1]..sp[2] : ~IsSpace(CharAt(s, i))
     /\ sp[1] = 1 \/ IsSpace(CharAt(s, sp[1] - 1))
     /\ sp[2] = Len(s) \/ IsSpace(CharAt(s, sp[2] + 1))}

\* The tokens longer than 3 characters, each occurrence counted.
LongTokens(s) == {sp \in TokenSpans(s) : sp[2] - sp[1] + 1 > 3}

\* The long tokens of the new text that occur as substrings of the existing one.
TokensFound(new, existing) ==
  {sp \in LongTokens(new) : includes(existing, SubSeq(new, sp[1], sp[2]))}

\* The fraction of the long tokens of the new text found in the existing one,
\* 0 without long tokens.
TokenFraction(new, existing) ==
  IF LongTokens(new) = {} THEN Zero
  ELSE Frac(Cardinality(TokensFound(new, existing)), Cardinality(LongTokens(new)))

\* The catch block has run for the current entry.
FallbackRan == pc = "assessed" /\ result # None /\ ~result.ok

\* The two texts the catch block has run on.
NewDetails == DetailsOr(newLineItem, "")

ExistingDetails == oracleCalls[Len(oracleCalls)].prompt.existingDetails

\* C29 as stated: the fallback score is the fraction of the tokens of the new
\* details longer than 3 characters that occur as substrings of the existing
\* details, the texts taken as they are written.
C29_FallbackScoreIsTokenFraction ==
  FallbackRan =>
    aiResult.similarityScore = TokenFraction(NewDetails, ExistingDetails)

\* C29 amended: the fallback score is that fraction taken on the two texts in
\* lower case, repeated tokens counted each time, and 0 when the new details
\* have no token longer than 3 characters; the verdict is a duplicate exactly
\* above 0.5, hence never without such a token, and the score lies in [0,1].
C29_FallbackScoreIgnoresCase ==
  FallbackRan =>
    /\ aiResult.similarityScore =
         TokenFraction(toLowerCase(NewDetails), toLowerCase(ExistingDetails))
    /\ aiResult.isDuplicate = GT(aiResult.similarityScore, Frac(1, 2))
    /\ LongTokens(NewDetails) = {} => aiResult.similarityScore = Zero /\ ~aiResult.isDuplicate
    /\ LE(Zero, aiResult.similarityScore) /\ LE(aiResult.similarityScore, One)

\* C29 witness: the fallback has run on a new text with a repeated token and
\* on an existing text with capitals, and scored 2/3.
C29_Witness ==
  /\ FallbackRan
  /\ NewDetails = "cable cable trench"
  /\ ExistingDetails = "Fiber Cable Splice Testing"
  /\ aiResult.similarityScore = Frac(2, 3)
  /\ aiResult.isDuplicate

\* C30: in every duplicate-summary written, totalDuplicates is at most
\* totalLineItems, whatever the proposal and the store.
C30_DuplicatesAtMostLineItems ==
  \A s \in SummaryPayloads : s.totalDuplicates <= s.totalLineItems

====
